---- MODULE Spec2Model ----
(***************************************************************************)
(* Model of the authorization decision service: the policy store, the      *)
(* single-slot active-policy cache, policy creation and activation, and    *)
(* the authorize decision path, as implemented under src/app.              *)
(*                                                                         *)
(* Every HTTP handler runs in its own thread with its own database         *)
(* session (get_db), so a handler is a sequence of steps, one per store    *)
(* statement or cache access, interleaved with the steps of the others.    *)
(***************************************************************************)
EXTENDS Integers, Sequences, FiniteSets, TLC

(* ----------------------------- bounds ---------------------------------- *)
NumSessions == 2
MaxPolicies == 2
MaxAudit == 2
MaxRules == 2
MaxSwapRules == 3
MaxRoles == 3
MaxParents == 2
MaxBatch == 2

Sessions == 1..NumSessions

(* --------------------------- Python values ----------------------------- *)
\* Python's None, as returned by dict.get on a missing key.
NoneVal == "<None>"

\* trace_id = None in an AuthResponse; audit ids start at 1.
NoTrace == 0

\* str(v) inside an f-string.
Str(v) == IF v = NoneVal THEN "None" ELSE v

\* repr(v) of a string or None, as used by str(dict).
Repr(v) == IF v = NoneVal THEN "None" ELSE "'" \o v \o "'"

\* d.get(k, default) on a mapping.
DictGet(d, k, default) == IF k \in DOMAIN d THEN d[k] ELSE default

EmptyDict == <<>>

\* str(d) for a mapping of at most one key.
StrDict(d) ==
    IF DOMAIN d = {} THEN "{}"
    ELSE LET k == CHOOSE x \in DOMAIN d : TRUE
         IN  "{'" \o k \o "': " \o Repr(d[k]) \o "}"

(* ------------------------------ reasons -------------------------------- *)
NoPolicyReason == "System Error: No active policy found."
ImplicitDenyReason == "Implicit Deny: No matching rule found."

MatchedReason(i, rule) ==
    "Matched Rule #" \o ToString(i) \o " (Role: " \o Str(DictGet(rule, "role", NoneVal))
        \o ", Action: " \o Str(DictGet(rule, "action", NoneVal)) \o ")."

(* ------------------------------ state ---------------------------------- *)
VARIABLES
    policies,   \* table policies: row id = index; [name, version, content, is_active]
    roles,      \* table roles + role_inheritance: role name -> set of parent names
    audit,      \* table audit_logs: row id = index
    cache,      \* ACTIVE_POLICY_CACHE["policy"]: the cached ORM object
    sess,       \* per handler thread: position and locals of the running call
    lastAct,    \* id installed by the most recent successful activate (0: none,
                \* or an activate of a missing id ran during that call)
    run,        \* history of the activate calls running now (see NoRun)
    rolecall,   \* the last call on the role graph: its inputs and its outcome
    ev          \* inputs and result of a stand-alone rule evaluation

vars == <<policies, roles, audit, cache, sess, lastAct, run, rolecall, ev>>

\* The cached Policy object: which row it is, the session it is attached to
\* (0 once that session is closed) and whether its attributes are expired.
EmptyCache == [pid |-> 0, owner |-> 0, expired |-> FALSE]

NoRequest == [subject |-> EmptyDict, action |-> "", resource |-> EmptyDict, dry_run |-> TRUE]
NoContent == [rules |-> <<>>]
NoResp == [kind |-> "none", status |-> 0, decision |-> FALSE, reason |-> "",
           trace_id |-> NoTrace, pid |-> 0]

IdleSess == [pc |-> "idle", op |-> "none", policy_id |-> 0, request |-> NoRequest,
             name |-> "", content |-> NoContent, last_version |-> 0,
             obj |-> 0, was_active |-> FALSE, held |-> EmptyCache, resp |-> NoResp]

\* What has happened since the last moment at which no activate call was
\* running: two of them ran at the same time (overlap), a deactivation
\* switched an active row off (replaced), an activate of a missing id started
\* while another activate was running (spoiled).
NoRun == [overlap |-> FALSE, replaced |-> FALSE, spoiled |-> FALSE]

\* No call on the role graph yet.  For create_role: name, parent_names and
\* the HTTP status and detail; for a decision: the subject's role (name), the
\* role named by the policy's single rule, the expanded role list and the
\* decision.
NoRoleCall == [op |-> "none", name |-> "", parent_names |-> <<>>, status |-> 0,
               detail |-> "", rule_role |-> "", expanded |-> {}, decision |-> FALSE]

EvNone == [roles |-> {}, action |-> "", resource |-> EmptyDict, rules |-> <<>>,
           done |-> FALSE, decision |-> FALSE, reason |-> "",
           i |-> 0, j |-> 0, swapped |-> FALSE]

(* --------------------------- store queries ----------------------------- *)
PolicyIds == 1..Len(policies)

\* Policy.is_active == True
ActiveSet == {p \in PolicyIds : policies[p].is_active}

\* get_role_by_name: the role row, if any.
RoleExists(name) == name \in DOMAIN roles

\* The ancestors of a role within n hops.
RECURSIVE AncestorsWithin(_, _)
AncestorsWithin(names, n) ==
    IF n = 0 THEN names
    ELSE AncestorsWithin(
            names \cup UNION {roles[r] : r \in names \cap DOMAIN roles}, n - 1)

\* An expansion that follows the parent edges transitively.
expand_ancestors(role_name) ==
    IF ~RoleExists(role_name) THEN {role_name}
    ELSE AncestorsWithin({role_name}, Cardinality(DOMAIN roles))

\* An expansion that returns nothing for a role without a row.
expand_known_roles(role_name) ==
    IF ~RoleExists(role_name) THEN {}
    ELSE {role_name} \cup roles[role_name]

\* expand_roles: the role itself plus its immediate parents.
expand_roles(role_name) ==
    IF ~RoleExists(role_name) THEN {role_name}
    ELSE {role_name} \cup roles[role_name]

\* check_abac_conditions
check_abac_conditions(rule_resource_conditions, request_resource) ==
    IF DOMAIN rule_resource_conditions = {} THEN TRUE
    ELSE \A key \in DOMAIN rule_resource_conditions :
            DictGet(request_resource, key, NoneVal) = rule_resource_conditions[key]

\* An iteration test that skips the role check.
RuleMatchesAnyRole(rule, user_roles_list, action, resource) ==
    /\ ~(DictGet(rule, "action", NoneVal) # action
            /\ DictGet(rule, "action", NoneVal) # "*")
    /\ check_abac_conditions(DictGet(rule, "resource_match", EmptyDict), resource)

\* An iteration test that compares role and action literally, "*" included.
RuleMatchesNoWildcard(rule, user_roles_list, action, resource) ==
    /\ DictGet(rule, "role", NoneVal) \in user_roles_list
    /\ DictGet(rule, "action", NoneVal) = action
    /\ check_abac_conditions(DictGet(rule, "resource_match", EmptyDict), resource)

\* One iteration test of the evaluation loop: RBAC, action and ABAC match.
RuleMatches(rule, user_roles_list, action, resource) ==
    /\ ~(DictGet(rule, "role", NoneVal) \notin user_roles_list
            /\ DictGet(rule, "role", NoneVal) # "*")
    /\ ~(DictGet(rule, "action", NoneVal) # action
            /\ DictGet(rule, "action", NoneVal) # "*")
    /\ check_abac_conditions(DictGet(rule, "resource_match", EmptyDict), resource)

\* The loop without its break: the last matching rule decides.
RECURSIVE EvalFromNoBreak(_, _, _, _, _)
EvalFromNoBreak(rules, i, user_roles_list, action, resource) ==
    IF i > Len(rules)
    THEN [decision |-> FALSE, reason |-> ImplicitDenyReason]
    ELSE LET rest == EvalFromNoBreak(rules, i + 1, user_roles_list, action, resource)
         IN  IF rest.reason # ImplicitDenyReason THEN rest
             ELSE IF RuleMatches(rules[i], user_roles_list, action, resource)
                  THEN [decision |-> (DictGet(rules[i], "effect", NoneVal) = "allow"),
                        reason |-> MatchedReason(i - 1, rules[i])]
                  ELSE rest

\* The loop with a decision that allows unless the effect is "deny".
RECURSIVE EvalFromDenyOnly(_, _, _, _, _)
EvalFromDenyOnly(rules, i, user_roles_list, action, resource) ==
    IF i > Len(rules)
    THEN [decision |-> FALSE, reason |-> ImplicitDenyReason]
    ELSE IF RuleMatches(rules[i], user_roles_list, action, resource)
         THEN [decision |-> (DictGet(rules[i], "effect", NoneVal) # "deny"),
               reason |-> MatchedReason(i - 1, rules[i])]
         ELSE EvalFromDenyOnly(rules, i + 1, user_roles_list, action, resource)

\* The for/enumerate loop of authorize_request from position i (1-based here,
\* the reason carries the zero-based index), with its break on the first match.
RECURSIVE EvalFrom(_, _, _, _, _)
EvalFrom(rules, i, user_roles_list, action, resource) ==
    IF i > Len(rules)
    THEN [decision |-> FALSE, reason |-> ImplicitDenyReason]
    ELSE IF RuleMatches(rules[i], user_roles_list, action, resource)
         THEN [decision |-> (DictGet(rules[i], "effect", NoneVal) = "allow"),
               reason |-> MatchedReason(i - 1, rules[i])]
         ELSE EvalFrom(rules, i + 1, user_roles_list, action, resource)

Evaluate(rules, user_roles_list, action, resource) ==
    EvalFrom(rules, 1, user_roles_list, action, resource)

\* Steps 1 and 2 of authorize_request for a request against a policy content.
Decide(content, request) ==
    LET user_role == DictGet(request.subject, "role", "guest")
        user_roles_list == expand_roles(user_role)
        rules == DictGet(content, "rules", <<>>)
    IN  Evaluate(rules, user_roles_list, request.action, request.resource)

\* A log entry that records every decision as allowed.
LogEntryAllowed(request, d) ==
    [subject |-> StrDict(request.subject), action |-> request.action,
     resource |-> StrDict(request.resource), decision |-> TRUE,
     explanation |-> d.reason]

\* The log_entry dict written by a non-dry-run decision.
LogEntry(request, d) ==
    [subject |-> StrDict(request.subject), action |-> request.action,
     resource |-> StrDict(request.resource), decision |-> d.decision,
     explanation |-> d.reason]

(* ------------------------- inputs of the calls ------------------------- *)

ContentV1 == [rules |-> <<[role |-> "employee", action |-> "write", effect |-> "allow"]>>]
ContentV2 == [rules |-> <<[role |-> "manager", action |-> "read", effect |-> "allow",
                           resource_match |-> [status |-> "DRAFT"]]>>]

\* Bodies of POST /policies/: a name and a content.
CreateInputs == {[name |-> "base", content |-> ContentV1],
                 [name |-> "strict", content |-> ContentV2]}

\* Roles {employee}, {manager -> parents = [employee]}.
HierarchyRoles == [r \in {"employee", "manager"} |->
                      IF r = "manager" THEN {"employee"} ELSE {}]

\* Bodies of POST /access: manager may write under ContentV1 only (through its
\* parent employee).
Requests ==
    {[subject |-> [role |-> "manager"], action |-> "write", resource |-> EmptyDict,
      dry_run |-> d] : d \in BOOLEAN}

\* Path parameter of POST /policies/{policy_id}/activate; an id above the
\* number of stored rows does not exist.
ActivateIds == 1..MaxPolicies

(* ------------------------------- Init ---------------------------------- *)
\* A fresh process on a database that holds the two-role hierarchy and no
\* policy yet.
Init ==
    /\ policies = <<>>
    /\ roles = HierarchyRoles
    /\ audit = <<>>
    /\ cache = EmptyCache
    /\ sess = [s \in Sessions |-> IdleSess]
    /\ lastAct = 0
    /\ run = NoRun
    /\ rolecall = NoRoleCall
    /\ ev = EvNone

Idle(s) == sess[s].pc = "idle"

\* The thread pool hands a new request to its first free worker.
Free(s) == Idle(s) /\ \A t \in Sessions : t < s => ~Idle(t)

InOp(s, op) == sess[s].op = op

PolicyResp(pid) == [NoResp EXCEPT !.kind = "policy", !.status = 200, !.pid = pid]
ErrorResp(code) == [NoResp EXCEPT !.kind = "error", !.status = code]
AuthResp(decision, reason, trace_id) ==
    [NoResp EXCEPT !.kind = "auth", !.status = 200, !.decision = decision,
                   !.reason = reason, !.trace_id = trace_id]

(* --------------------------- create_policy ----------------------------- *)
\* Highest version stored under any name.
LastVersionAnyName(name) ==
    LET vs == {policies[p].version : p \in PolicyIds}
    IN  IF vs = {} THEN 0 ELSE CHOOSE v \in vs : \A w \in vs : w <= v

\* Highest version stored under a name (0 when the name is new).
LastVersion(name) ==
    LET vs == {policies[p].version : p \in {q \in PolicyIds : policies[q].name = name}}
    IN  IF vs = {} THEN 0 ELSE CHOOSE v \in vs : \A w \in vs : w <= v

\* create_policy, the SELECT ... ORDER BY version DESC LIMIT 1.
CreateSelect(s, name, content) ==
    /\ Free(s)
    /\ Len(policies) + Cardinality({t \in Sessions : sess[t].pc = "create_insert"})
          < MaxPolicies
    /\ sess' = [sess EXCEPT ![s] = [IdleSess EXCEPT !.pc = "create_insert",
                    !.op = "create", !.name = name, !.content = content,
                    !.last_version = LastVersion(name)]]
    /\ UNCHANGED <<policies, roles, audit, cache, lastAct, run, rolecall, ev>>

\* A new row that is stored as the active one.
NewPolicyActive(name, content, new_version) ==
    [name |-> name, version |-> new_version, content |-> content, is_active |-> TRUE]

\* Policy(name=..., content=..., version=new_version, is_active=False)
NewPolicy(name, content, new_version) ==
    [name |-> name, version |-> new_version, content |-> content, is_active |-> FALSE]

\* create_policy, the INSERT and commit; the response is the new row and the
\* request's session is closed.
CreateInsert(s) ==
    /\ sess[s].pc = "create_insert"
    /\ policies' = Append(policies,
            NewPolicy(sess[s].name, sess[s].content, sess[s].last_version + 1))
    /\ sess' = [sess EXCEPT ![s] = IdleSess]
    /\ UNCHANGED <<roles, audit, cache, lastAct, run, rolecall, ev>>

(* -------------------------- activate_policy ---------------------------- *)
\* A deactivation that leaves the rows as they are.
DeactivateNone(ps) == ps

\* db.query(Policy).filter(Policy.is_active == True).update({is_active: False})
DeactivateAll(ps) == [p \in DOMAIN ps |-> [ps[p] EXCEPT !.is_active = FALSE]]

\* An install that fills the slot only when it is empty.
InstallIfEmpty(old, s, pid) ==
    IF old.pid # 0 THEN old ELSE [pid |-> pid, owner |-> s, expired |-> FALSE]

\* ACTIVE_POLICY_CACHE["policy"] = target_policy: the slot now refers to the
\* freshly refreshed object of session s.
InstallActivated(old, s, pid) == [pid |-> pid, owner |-> s, expired |-> FALSE]

\* Some activate call is between its first statement and its return.
ActivateRunning ==
    \E s \in Sessions : sess[s].pc \in {"act_select", "act_commit", "act_install"}

\* The history once call s has returned.
RunAfter(s) ==
    IF \E t \in Sessions \ {s} :
            sess[t].pc \in {"act_select", "act_commit", "act_install"}
    THEN run ELSE NoRun

\* The bulk UPDATE ... SET is_active = false WHERE is_active, and its commit.
ActDeactivate(s, policy_id) ==
    /\ Free(s)
    /\ policies' = DeactivateAll(policies)
    /\ sess' = [sess EXCEPT ![s] = [IdleSess EXCEPT !.pc = "act_select",
                    !.op = "activate", !.policy_id = policy_id]]
    /\ run' = [overlap |-> run.overlap \/ ActivateRunning,
               replaced |-> run.replaced \/ ActiveSet # {},
               spoiled |-> run.spoiled
                              \/ (ActivateRunning /\ policy_id \notin PolicyIds)]
    /\ UNCHANGED <<roles, audit, cache, lastAct, rolecall, ev>>

\* The SELECT of the target row; a miss returns None, which the route turns
\* into 404.
ActSelect(s) ==
    /\ sess[s].pc = "act_select"
    /\ IF sess[s].policy_id \in PolicyIds
       THEN /\ sess' = [sess EXCEPT ![s].pc = "act_commit",
                            ![s].was_active = policies[sess[s].policy_id].is_active]
            /\ UNCHANGED <<lastAct, run>>
       ELSE /\ sess' = [sess EXCEPT ![s] = [IdleSess EXCEPT !.pc = "ret",
                            !.op = "activate", !.resp = ErrorResp(404)]]
            /\ lastAct' = 0
            /\ run' = RunAfter(s)
    /\ UNCHANGED <<policies, roles, audit, cache, rolecall, ev>>

\* target_policy.is_active = True and commit: the flush writes the row only
\* when the loaded value was not already True.
ActCommit(s) ==
    /\ sess[s].pc = "act_commit"
    /\ policies' = IF sess[s].was_active THEN policies
                   ELSE [policies EXCEPT ![sess[s].policy_id].is_active = TRUE]
    /\ sess' = [sess EXCEPT ![s].pc = "act_install"]
    /\ UNCHANGED <<roles, audit, cache, lastAct, run, rolecall, ev>>

\* refresh, ACTIVE_POLICY_CACHE["policy"] = target_policy, return.
ActInstall(s) ==
    /\ sess[s].pc = "act_install"
    /\ cache' = InstallActivated(cache, s, sess[s].policy_id)
    /\ lastAct' = IF run.spoiled THEN 0 ELSE sess[s].policy_id
    /\ run' = RunAfter(s)
    /\ sess' = [sess EXCEPT ![s] = [IdleSess EXCEPT !.pc = "ret",
                    !.op = "activate", !.resp = PolicyResp(sess[s].policy_id)]]
    /\ UNCHANGED <<policies, roles, audit, rolecall, ev>>

(* ------------------------- authorize_request --------------------------- *)
\* A non-dry-run request writes one audit row; the log is capped.
AuditRoom(request) ==
    request.dry_run
    \/ Len(audit) + Cardinality({t \in Sessions :
            sess[t].pc \in {"auth_db", "auth_install", "auth_rules", "auth_audit"}
                /\ ~sess[t].request.dry_run})
          < MaxAudit

\* An audit test that is true for every request.
AuditedAlways(request) == TRUE

\* if not request.dry_run
Audited(request) == ~request.dry_run

\* An audit write whose row never reaches the table.
create_audit_log_lost(rows, log) == rows

\* An audit write that inserts the row twice.
create_audit_log_twice(rows, log) == Append(Append(rows, log), log)

\* create_audit_log: db.add, db.commit; the table after the INSERT.
create_audit_log(rows, log) == Append(rows, log)

\* A trace id that is always the id of the first row.
FirstRowId(rows) == 1

\* db_log.id after db.refresh: the id the INSERT assigned, ids being handed
\* out in row order from 1.
NewRowId(rows) == Len(rows)

\* References to the Policy object loaded by session t, which is the slot's
\* content or the local variable active_policy of a running call: db.commit()
\* in session t expires the object, a read of an attribute through the open
\* session t loads it again, db.close() of session t detaches it as it is.
ExpireRef(ref, t) == IF ref.owner = t THEN [ref EXCEPT !.expired = TRUE] ELSE ref
ReloadRef(ref, t) == IF ref.owner = t THEN [ref EXCEPT !.expired = FALSE] ELSE ref
DetachRef(ref, t) == IF ref.owner = t THEN [ref EXCEPT !.owner = 0] ELSE ref

\* Cache hit: active_policy = ACTIVE_POLICY_CACHE.get("policy") is not None;
\* the call keeps the object it found in its local variable.
AuthHit(s, request) ==
    /\ Free(s)
    /\ cache.pid # 0
    /\ AuditRoom(request)
    /\ sess' = [sess EXCEPT ![s] = [IdleSess EXCEPT !.pc = "auth_rules",
                    !.op = "authorize", !.request = request, !.held = cache]]
    /\ UNCHANGED <<policies, roles, audit, cache, lastAct, run, rolecall, ev>>

\* Cache miss: the slot was None.
AuthMiss(s, request) ==
    /\ Free(s)
    /\ cache.pid = 0
    /\ AuditRoom(request)
    /\ sess' = [sess EXCEPT ![s] = [IdleSess EXCEPT !.pc = "auth_db",
                    !.op = "authorize", !.request = request]]
    /\ UNCHANGED <<policies, roles, audit, cache, lastAct, run, rolecall, ev>>

\* crud.get_active_policy: first row with is_active; no ORDER BY, so with
\* several active rows any of them may come first.
AuthDb(s) ==
    /\ sess[s].pc = "auth_db"
    /\ IF ActiveSet = {}
       THEN sess' = [sess EXCEPT ![s] = [IdleSess EXCEPT !.pc = "ret",
                        !.op = "authorize", !.request = sess[s].request,
                        !.resp = AuthResp(FALSE, NoPolicyReason, NoTrace)]]
       ELSE \E p \in ActiveSet :
                sess' = [sess EXCEPT ![s].pc = "auth_install", ![s].obj = p]
    /\ UNCHANGED <<policies, roles, audit, cache, lastAct, run, rolecall, ev>>

\* ACTIVE_POLICY_CACHE["policy"] = active_policy
AuthInstall(s) ==
    /\ sess[s].pc = "auth_install"
    /\ cache' = [pid |-> sess[s].obj, owner |-> s, expired |-> FALSE]
    /\ sess' = [sess EXCEPT ![s].pc = "auth_rules", ![s].held = cache']
    /\ UNCHANGED <<policies, roles, audit, lastAct, run, rolecall, ev>>

\* Role expansion, active_policy.content and the rule loop on the object the
\* call holds.  Reading .content of an expired object reloads it through its
\* session; once that session is closed the read raises DetachedInstanceError,
\* and while it is still open in another thread the outcome of the
\* unsynchronised reload is either of the two.  A dry-run call returns here;
\* the local variable is not read again.
AuthRules(s) ==
    /\ sess[s].pc = "auth_rules"
    /\ LET held == sess[s].held
           request == sess[s].request
           d == Decide(policies[held.pid].content, request)
           decided == [IdleSess EXCEPT
                          !.pc = IF Audited(request) THEN "auth_audit" ELSE "ret",
                          !.op = "authorize", !.request = request,
                          !.resp = AuthResp(d.decision, d.reason, NoTrace)]
       IN  \/ /\ ~held.expired
              /\ sess' = [sess EXCEPT ![s] = decided]
              /\ UNCHANGED cache
           \/ /\ held.expired
              /\ held.owner # 0
              /\ sess' = [t \in Sessions |->
                            IF t = s THEN decided
                            ELSE [sess[t] EXCEPT !.held = ReloadRef(@, held.owner)]]
              /\ cache' = ReloadRef(cache, held.owner)
           \/ /\ held.expired
              /\ sess' = [sess EXCEPT ![s] = [IdleSess EXCEPT !.pc = "ret",
                            !.op = "authorize", !.request = request,
                            !.resp = ErrorResp(500)]]
              /\ UNCHANGED cache
    /\ UNCHANGED <<policies, roles, audit, lastAct, run, rolecall, ev>>

\* The audit step of a call that is not a dry run: create_audit_log commits,
\* which expires the objects of the calling session, and the response carries
\* the id of the new row.
AuthAudit(s) ==
    /\ sess[s].pc = "auth_audit"
    /\ audit' = create_audit_log(audit, LogEntry(sess[s].request, sess[s].resp))
    /\ sess' = [t \in Sessions |->
                  IF t = s
                  THEN [sess[s] EXCEPT !.pc = "ret",
                            !.resp = AuthResp(sess[s].resp.decision,
                                              sess[s].resp.reason, NewRowId(audit'))]
                  ELSE [sess[t] EXCEPT !.held = ExpireRef(@, s)]]
    /\ cache' = ExpireRef(cache, s)
    /\ UNCHANGED <<policies, roles, lastAct, run, rolecall, ev>>

(* ------------------------- end of a request ---------------------------- *)
\* get_db's finally: db.close() detaches the session's objects.
Close(s) ==
    /\ sess[s].pc = "ret"
    /\ sess' = [t \in Sessions |->
                  IF t = s THEN IdleSess
                  ELSE [sess[t] EXCEPT !.held = DetachRef(@, s)]]
    /\ cache' = DetachRef(cache, s)
    /\ UNCHANGED <<policies, roles, audit, lastAct, run, rolecall, ev>>

\* The process is restarted once its running handlers have finished: the cache
\* module is initialised again, the database keeps its rows.
Restart ==
    /\ \A s \in Sessions : Idle(s)
    /\ cache.pid # 0
    /\ cache' = EmptyCache
    /\ sess' = [s \in Sessions |-> IdleSess]
    /\ lastAct' = 0
    /\ UNCHANGED <<policies, roles, audit, run, rolecall, ev>>

Next ==
    \/ \E s \in Sessions, policy \in CreateInputs :
            CreateSelect(s, policy.name, policy.content)
    \/ \E s \in Sessions : CreateInsert(s)
    \/ \E s \in Sessions, policy_id \in ActivateIds : ActDeactivate(s, policy_id)
    \/ \E s \in Sessions : ActSelect(s)
    \/ \E s \in Sessions : ActCommit(s)
    \/ \E s \in Sessions : ActInstall(s)
    \/ \E s \in Sessions, request \in Requests : AuthHit(s, request)
    \/ \E s \in Sessions, request \in Requests : AuthMiss(s, request)
    \/ \E s \in Sessions : AuthDb(s)
    \/ \E s \in Sessions : AuthInstall(s)
    \/ \E s \in Sessions : AuthRules(s)
    \/ \E s \in Sessions : AuthAudit(s)
    \/ \E s \in Sessions : Close(s)
    \/ Restart

Spec == Init /\ [][Next]_vars

(* ----------------------- the management router alone ------------------- *)
\* The calls of routes/management.py that write: POST /policies and
\* POST /policies/{policy_id}/activate.  authorize_request writes the cache
\* and the audit log and no policy row.
ManagementNext ==
    \/ \E s \in Sessions, policy \in CreateInputs :
            CreateSelect(s, policy.name, policy.content)
    \/ \E s \in Sessions : CreateInsert(s)
    \/ \E s \in Sessions, policy_id \in ActivateIds : ActDeactivate(s, policy_id)
    \/ \E s \in Sessions : ActSelect(s)
    \/ \E s \in Sessions : ActCommit(s)
    \/ \E s \in Sessions : ActInstall(s)
    \/ \E s \in Sessions : Close(s)
    \/ Restart

ManagementSpec == Init /\ [][ManagementNext]_vars

(* ----------- the management router with one create at a time ---------- *)
\* Some create call is between its SELECT and its INSERT.
CreateRunning == \E s \in Sessions : sess[s].pc = "create_insert"

\* Create calls that do not overlap each other, concurrent with activate calls.
SerialCreateNext ==
    \/ \E s \in Sessions, policy \in CreateInputs :
            ~CreateRunning /\ CreateSelect(s, policy.name, policy.content)
    \/ \E s \in Sessions : CreateInsert(s)
    \/ \E s \in Sessions, policy_id \in ActivateIds : ActDeactivate(s, policy_id)
    \/ \E s \in Sessions : ActSelect(s)
    \/ \E s \in Sessions : ActCommit(s)
    \/ \E s \in Sessions : ActInstall(s)
    \/ \E s \in Sessions : Close(s)
    \/ Restart

SerialCreateSpec == Init /\ [][SerialCreateNext]_vars

(* ----------------------------- create_role ---------------------------- *)
RoleNamePool == <<"employee", "manager", "director", "auditor">>

\* Role names used in request bodies.
RoleNames == {RoleNamePool[i] : i \in 1..MaxRoles}

\* parent_names: lists of distinct role names.
ParentLists ==
    {q \in UNION {[1..n -> RoleNames] : n \in 0..MaxParents} :
        \A i, j \in 1..Len(q) : i # j => q[i] # q[j]}

\* role.name in role.parent_names
SelfParent(name, parent_names) == \E i \in 1..Len(parent_names) : parent_names[i] = name

\* Positions of the parents for which get_role_by_name returns None.
MissingParents(parent_names) ==
    {i \in 1..Len(parent_names) : ~RoleExists(parent_names[i])}

\* A uniqueness test that lets every name through.
NameTakenNever(name) == FALSE

\* Role.name is unique: the INSERT of an existing name fails at commit.
NameTaken(name) == RoleExists(name)

\* db.add(db_role), db.commit(): the role row and one role_inheritance edge
\* per parent.
InsertRole(rs, name, parents) ==
    [r \in DOMAIN rs \cup {name} |-> IF r = name THEN parents ELSE rs[r]]

\* A failed commit whose pending role and edges stay in the store.
RollbackKeepsPending(rs, name, parents) == InsertRole(rs, name, parents)

\* db.rollback(): the store is as it was before the call.
Rollback(rs, name, parents) == rs

CycleDetail == "A role cannot inherit from itself (Cycle detected)."
ConflictDetail == "Role already exists or invalid data."
UnknownParentDetail(parent_name) == "Parent role '" \o parent_name \o "' not found."

\* create_role.  The parent lookups only read rows that are never deleted and
\* the uniqueness of the name is decided by the store at commit, so every
\* interleaving of concurrent calls has the outcome of running the calls one
\* after the other in the order of their last store statement.
CreateRole(name, parent_names) ==
    LET parents == {parent_names[i] : i \in 1..Len(parent_names)}
        missing == MissingParents(parent_names)
        call == [NoRoleCall EXCEPT !.op = "create_role", !.name = name,
                                   !.parent_names = parent_names]
    IN  /\ IF SelfParent(name, parent_names)
           THEN /\ roles' = roles
                /\ rolecall' = [call EXCEPT !.status = 400, !.detail = CycleDetail]
           ELSE IF missing # {}
           THEN LET first == CHOOSE i \in missing : \A k \in missing : i <= k
                IN  /\ roles' = roles
                    /\ rolecall' = [call EXCEPT !.status = 404,
                            !.detail = UnknownParentDetail(parent_names[first])]
           ELSE IF NameTaken(name)
           THEN /\ roles' = Rollback(roles, name, parents)
                /\ rolecall' = [call EXCEPT !.status = 400, !.detail = ConflictDetail]
           ELSE /\ roles' = InsertRole(roles, name, parents)
                /\ rolecall' = [call EXCEPT !.status = 200]
        /\ UNCHANGED <<policies, audit, cache, sess, lastAct, run, ev>>

\* A policy with the single rule "role rule_role may read".
OneRuleContent(rule_role) ==
    [rules |-> <<[role |-> rule_role, action |-> "read", effect |-> "allow"]>>]

\* Steps 1 and 2 of authorize_request for a read request of a subject with
\* the given role, against a one-rule policy.
RoleDecide(role_name, rule_role) ==
    LET request == [subject |-> [role |-> role_name], action |-> "read",
                    resource |-> EmptyDict, dry_run |-> TRUE]
        d == Decide(OneRuleContent(rule_role), request)
    IN  /\ rolecall' = [NoRoleCall EXCEPT !.op = "authorize", !.name = role_name,
                            !.rule_role = rule_role,
                            !.expanded = expand_roles(role_name),
                            !.decision = d.decision]
        /\ UNCHANGED <<policies, roles, audit, cache, sess, lastAct, run, ev>>

\* A fresh process on a database without roles.
RoleInit ==
    /\ policies = <<>>
    /\ roles = EmptyDict
    /\ audit = <<>>
    /\ cache = EmptyCache
    /\ sess = [s \in Sessions |-> IdleSess]
    /\ lastAct = 0
    /\ run = NoRun
    /\ rolecall = NoRoleCall
    /\ ev = EvNone

RoleNext ==
    \/ \E name \in RoleNames, parent_names \in ParentLists : CreateRole(name, parent_names)
    \/ \E role_name \in RoleNames, rule_role \in RoleNames : RoleDecide(role_name, rule_role)

RoleSpec == RoleInit /\ [][RoleNext]_vars

(* ------------- the decision path on a store that holds policies ------- *)
\* The rows left by create("base", ContentV1) and create("strict", ContentV2).
StoredPolicies ==
    <<[name |-> "base", version |-> 1, content |-> ContentV1, is_active |-> FALSE],
      [name |-> "strict", version |-> 1, content |-> ContentV2, is_active |-> FALSE]>>

\* A fresh process on a database in which two policies have been created and
\* none has been activated yet.
AccessInit ==
    /\ policies = StoredPolicies
    /\ roles = HierarchyRoles
    /\ audit = <<>>
    /\ cache = EmptyCache
    /\ sess = [s \in Sessions |-> IdleSess]
    /\ lastAct = 0
    /\ run = NoRun
    /\ rolecall = NoRoleCall
    /\ ev = EvNone

\* POST /access calls running concurrently with each other and with the
\* activate calls of one administrator, who sends them one at a time.
AccessNext ==
    \/ \E s \in Sessions, policy_id \in ActivateIds :
            ~ActivateRunning /\ ActDeactivate(s, policy_id)
    \/ \E s \in Sessions : ActSelect(s)
    \/ \E s \in Sessions : ActCommit(s)
    \/ \E s \in Sessions : ActInstall(s)
    \/ \E s \in Sessions, request \in Requests : AuthHit(s, request)
    \/ \E s \in Sessions, request \in Requests : AuthMiss(s, request)
    \/ \E s \in Sessions : AuthDb(s)
    \/ \E s \in Sessions : AuthInstall(s)
    \/ \E s \in Sessions : AuthRules(s)
    \/ \E s \in Sessions : AuthAudit(s)
    \/ \E s \in Sessions : Close(s)
    \/ Restart

AccessSpec == AccessInit /\ [][AccessNext]_vars

(* ------------------- stand-alone rule evaluation ----------------------- *)
EvalRoleSets == {{"manager"}, {"manager", "employee"}, {"guest"}}
EvalActions == {"read", "write"}
EvalResources == {EmptyDict, [status |-> "DRAFT"], [status |-> "FINAL"]}

EvalRules ==
    {[role |-> r, action |-> a, effect |-> e] :
        r \in {"manager", "employee", "*"}, a \in {"read", "*"}, e \in {"allow", "deny"}}
    \cup
    {[role |-> r, action |-> a, effect |-> e, resource_match |-> [status |-> "DRAFT"]] :
        r \in {"manager", "employee", "*"}, a \in {"read", "*"}, e \in {"allow", "deny"}}

RuleLists == UNION {[1..n -> EvalRules] : n \in 0..MaxRules}

EvalInit ==
    /\ policies = <<>>
    /\ roles = HierarchyRoles
    /\ audit = <<>>
    /\ cache = EmptyCache
    /\ sess = [s \in Sessions |-> IdleSess]
    /\ lastAct = 0
    /\ run = NoRun
    /\ rolecall = NoRoleCall
    /\ ev \in {[EvNone EXCEPT !.roles = rs, !.action = a, !.resource = res, !.rules = rl] :
                 rs \in EvalRoleSets, a \in EvalActions, res \in EvalResources,
                 rl \in RuleLists}

\* The evaluation loop applied to the drawn inputs.
EvalApply ==
    /\ ~ev.done
    /\ LET d == Evaluate(ev.rules, ev.roles, ev.action, ev.resource)
       IN  ev' = [ev EXCEPT !.done = TRUE, !.decision = d.decision, !.reason = d.reason]
    /\ UNCHANGED <<policies, roles, audit, cache, sess, lastAct, run, rolecall>>

EvalNext == EvalApply

EvalSpec == EvalInit /\ [][EvalNext]_vars

(* -------------- evaluation of a rule list and of a reordering ---------- *)
\* Rules without attribute conditions on the action "read".
SwapRules == {r \in EvalRules : r.action = "read" /\ "resource_match" \notin DOMAIN r}

SwapLists == UNION {[1..n -> SwapRules] : n \in 2..MaxSwapRules}

\* The rule list with the rules at positions i and j exchanged.
SwapAt(rules, i, j) ==
    [k \in 1..Len(rules) |-> IF k = i THEN rules[j] ELSE IF k = j THEN rules[i] ELSE rules[k]]

SwapInit ==
    /\ policies = <<>>
    /\ roles = HierarchyRoles
    /\ audit = <<>>
    /\ cache = EmptyCache
    /\ sess = [s \in Sessions |-> IdleSess]
    /\ lastAct = 0
    /\ run = NoRun
    /\ rolecall = NoRoleCall
    /\ ev \in {[EvNone EXCEPT !.roles = rs, !.action = a, !.rules = rl, !.i = i, !.j = j] :
                 rs \in EvalRoleSets, a \in EvalActions, rl \in SwapLists,
                 i \in 1..MaxSwapRules, j \in 1..MaxSwapRules}
    /\ ev.i < ev.j /\ ev.j <= Len(ev.rules)

\* The evaluation loop applied to the drawn list and to its reordering.
SwapApply ==
    /\ ~ev.done
    /\ LET d == Evaluate(ev.rules, ev.roles, ev.action, ev.resource)
           e == Evaluate(SwapAt(ev.rules, ev.i, ev.j), ev.roles, ev.action, ev.resource)
       IN  ev' = [ev EXCEPT !.done = TRUE, !.decision = d.decision, !.reason = d.reason,
                            !.swapped = e.decision]
    /\ UNCHANGED <<policies, roles, audit, cache, sess, lastAct, run, rolecall>>

SwapNext == SwapApply

SwapSpec == SwapInit /\ [][SwapNext]_vars

(* ------------- the decision on arbitrary request bodies ---------------- *)
\* The JSON value stored under content["rules"], by its Python type, with what
\* a for loop over it yields: a list yields its rules, a str its characters,
\* a dict its keys; None and a number are not iterable.
JsonList(items) == [type |-> "list", yields |-> items]

MalformedRules ==
    {[type |-> "str", yields |-> <<>>], [type |-> "str", yields |-> <<"r">>],
     [type |-> "dict", yields |-> <<>>], [type |-> "dict", yields |-> <<"role">>],
     [type |-> "NoneType", yields |-> <<>>], [type |-> "int", yields |-> <<>>]}

\* The call raised: FastAPI answers 500 and no AuthResponse is built.
Raised == [status |-> 500, decision |-> FALSE, reason |-> ""]

Returned(d) == [status |-> 200, decision |-> d.decision, reason |-> d.reason]

\* Steps 1 and 2 of authorize_request on a content whose "rules" is any JSON
\* value: enumerate(rules) raises TypeError on None and on a number, and
\* rule.get raises AttributeError on the first character of a str and on the
\* first key of a dict.
EvaluateContent(content, request) ==
    LET rules == DictGet(content, "rules", JsonList(<<>>))
    IN  IF rules.type \in {"NoneType", "int"} THEN Raised
        ELSE IF rules.type \in {"str", "dict"}
        THEN IF rules.yields = <<>> THEN Returned(Decide([rules |-> <<>>], request))
             ELSE Raised
        ELSE Returned(Decide([rules |-> rules.yields], request))

\* Roles {employee}, {manager -> [employee]}, {guest -> [employee]}.
GuestRoles == [r \in {"employee", "manager", "guest"} |->
                  IF r = "employee" THEN {} ELSE {"employee"}]

\* subject of a request body: no role key, an empty role, a null role, the
\* default role, a stored role and a role without a row.
DecideSubjects ==
    {EmptyDict, [role |-> ""], [role |-> NoneVal], [role |-> "guest"],
     [role |-> "manager"], [role |-> "intern"]}

DecideActions == {"read", "write"}

DecideResources ==
    {EmptyDict, [status |-> "DRAFT"], [status |-> "FINAL"],
     [status |-> "DRAFT", owner |-> "bob"]}

\* A rule mapping from optional fields: <<>> for an absent key, <<v>> for a
\* key with value v.
RuleOf(role, action, effect, resource_match) ==
    LET keys == (IF role # <<>> THEN {"role"} ELSE {})
                  \cup (IF action # <<>> THEN {"action"} ELSE {})
                  \cup (IF effect # <<>> THEN {"effect"} ELSE {})
                  \cup (IF resource_match # <<>> THEN {"resource_match"} ELSE {})
    IN  [k \in keys |-> IF k = "role" THEN role[1]
                        ELSE IF k = "action" THEN action[1]
                        ELSE IF k = "effect" THEN effect[1]
                        ELSE resource_match[1]]

DecideRules ==
    {RuleOf(r, a, e, m) :
        r \in {<<>>, <<"*">>, <<"guest">>, <<"manager">>, <<"employee">>,
               <<"intern">>, <<"">>},
        a \in {<<>>, <<"read">>, <<"*">>},
        e \in {<<>>, <<"allow">>, <<"deny">>, <<"ALLOW">>},
        m \in {<<>>, <<EmptyDict>>, <<[status |-> "DRAFT"]>>, <<[status |-> NoneVal]>>}}

\* The rule {role: "*", action: "*"} without resource_match.
WildcardRule(effect) == [role |-> "*", action |-> "*", effect |-> effect]

\* Policy contents: no "rules" key, an empty list, one rule, the wildcard rule
\* (with any effect field) before another rule, and values of "rules" that
\* are not lists.
DecideContents ==
    {EmptyDict, [rules |-> JsonList(<<>>)]}
    \cup {[rules |-> JsonList(<<r>>)] : r \in DecideRules}
    \cup {[rules |-> JsonList(<<RuleOf(<<"*">>, <<"*">>, e, <<>>), r>>)] :
            e \in {<<>>, <<"allow">>, <<"deny">>, <<"ALLOW">>}, r \in DecideRules}
    \cup {[rules |-> m] : m \in MalformedRules}

DecNone == [subject |-> EmptyDict, action |-> "", resource |-> EmptyDict,
            content |-> EmptyDict, done |-> FALSE, status |-> 0,
            decision |-> FALSE, reason |-> "", expanded |-> {}]

DecideInit ==
    /\ policies = <<>>
    /\ roles = GuestRoles
    /\ audit = <<>>
    /\ cache = EmptyCache
    /\ sess = [s \in Sessions |-> IdleSess]
    /\ lastAct = 0
    /\ run = NoRun
    /\ rolecall = NoRoleCall
    /\ ev \in {[DecNone EXCEPT !.subject = sub, !.action = a, !.resource = res,
                               !.content = c] :
                 sub \in DecideSubjects, a \in DecideActions,
                 res \in DecideResources, c \in DecideContents}

\* The request of the drawn body.
DecideRequest ==
    [subject |-> ev.subject, action |-> ev.action, resource |-> ev.resource,
     dry_run |-> TRUE]

\* The decision path applied to the drawn request and content.
DecideApply ==
    /\ ~ev.done
    /\ LET d == EvaluateContent(ev.content, DecideRequest)
       IN  ev' = [ev EXCEPT !.done = TRUE, !.status = d.status,
                            !.decision = d.decision, !.reason = d.reason,
                            !.expanded =
                                expand_roles(DictGet(ev.subject, "role", "guest"))]
    /\ UNCHANGED <<policies, roles, audit, cache, sess, lastAct, run, rolecall>>

DecideNext == DecideApply

DecideSpec == DecideInit /\ [][DecideNext]_vars

(* ---------------- whole calls, one after the other --------------------- *)
\* The calls of one client that waits for each answer before it sends the
\* next request.  Every call runs alone, in the session of worker 1, from its
\* first statement to the close of its session, so a call is one step.
Worker == 1

\* db.close() of get_db: the objects of session s become detached.
CloseSession(c, s) == IF c.owner = s THEN [c EXCEPT !.owner = 0] ELSE c

\* Role expansion, rule evaluation, audit and response of authorize_request,
\* on the store and cache state st, for the policy object pid of session s.
EvaluateAndAudit(st, s, pid, request) ==
    LET d == Decide(policies[pid].content, request)
    IN  IF Audited(request)
        THEN LET rows == create_audit_log(st.audit, LogEntry(request, d))
             IN  [cache |-> IF st.cache.owner = s
                            THEN [st.cache EXCEPT !.expired = TRUE] ELSE st.cache,
                  audit |-> rows,
                  resp |-> AuthResp(d.decision, d.reason, NewRowId(rows))]
        ELSE [cache |-> st.cache, audit |-> st.audit,
              resp |-> AuthResp(d.decision, d.reason, NoTrace)]

\* authorize_request(request, db) in session s on the state st = [cache,
\* audit]; store_up = FALSE when the SELECT of the active policy fails.  The
\* result is the state after the call and its response; a call that raises
\* is answered 500.
authorize_request(st, s, request, store_up) ==
    IF st.cache.pid # 0
    THEN IF st.cache.expired /\ st.cache.owner # s
         THEN [cache |-> st.cache, audit |-> st.audit, resp |-> ErrorResp(500)]
         ELSE EvaluateAndAudit([st EXCEPT !.cache.expired = FALSE], s,
                               st.cache.pid, request)
    ELSE IF ~store_up
    THEN [cache |-> st.cache, audit |-> st.audit, resp |-> ErrorResp(500)]
    ELSE IF ActiveSet = {}
    THEN [cache |-> st.cache, audit |-> st.audit,
          resp |-> AuthResp(FALSE, NoPolicyReason, NoTrace)]
    ELSE LET p == CHOOSE q \in ActiveSet : TRUE
         IN  EvaluateAndAudit(
                 [st EXCEPT !.cache = [pid |-> p, owner |-> s, expired |-> FALSE]],
                 s, p, request)

\* The loop of authorize_batch from request i on: every request is evaluated
\* in the session s of the batch; a request that raises ends the call and
\* nothing is returned.
RECURSIVE BatchFrom(_, _, _, _, _)
BatchFrom(st, s, requests, i, results) ==
    IF i > Len(requests)
    THEN [cache |-> st.cache, audit |-> st.audit, status |-> 200, results |-> results]
    ELSE LET r == authorize_request(st, s, requests[i], TRUE)
         IN  IF r.resp.kind = "error"
             THEN [cache |-> r.cache, audit |-> r.audit, status |-> 500,
                   results |-> <<>>]
             ELSE BatchFrom([cache |-> r.cache, audit |-> r.audit], s, requests,
                            i + 1, Append(results, r.resp))

authorize_batch(st, s, requests) == BatchFrom(st, s, requests, 1, <<>>)

\* One POST /access per request, in the order of the list: each call has its
\* own session, closed before the next call starts.
RECURSIVE SeparateFrom(_, _, _, _, _)
SeparateFrom(st, s, requests, i, results) ==
    IF i > Len(requests)
    THEN [cache |-> st.cache, audit |-> st.audit, status |-> 200, results |-> results]
    ELSE LET r == authorize_request(st, s, requests[i], TRUE)
         IN  SeparateFrom([cache |-> CloseSession(r.cache, s), audit |-> r.audit],
                          s, requests, i + 1, Append(results, r.resp))

\* An activate that fills the slot even when the target row is missing.
activate_policy_always_installs(ps, c, s, policy_id) ==
    [policies |-> IF policy_id \in DOMAIN ps
                  THEN [DeactivateAll(ps) EXCEPT ![policy_id].is_active = TRUE]
                  ELSE DeactivateAll(ps),
     cache |-> InstallActivated(c, s, policy_id),
     target |-> IF policy_id \in DOMAIN ps THEN policy_id ELSE 0]

\* An activate that inverts the flag the target row had.
activate_policy_toggles(ps, c, s, policy_id) ==
    IF policy_id \in DOMAIN ps
    THEN [policies |-> [DeactivateAll(ps) EXCEPT
                            ![policy_id].is_active = ~ps[policy_id].is_active],
          cache |-> InstallActivated(c, s, policy_id),
          target |-> policy_id]
    ELSE [policies |-> DeactivateAll(ps), cache |-> c, target |-> 0]

\* activate_policy(db, policy_id) of session s running alone on the rows ps and
\* the slot c: the rows and the slot after the call and the id of the target
\* row (0 for None).
activate_policy(ps, c, s, policy_id) ==
    IF policy_id \in DOMAIN ps
    THEN [policies |-> [DeactivateAll(ps) EXCEPT ![policy_id].is_active = TRUE],
          cache |-> InstallActivated(c, s, policy_id),
          target |-> policy_id]
    ELSE [policies |-> DeactivateAll(ps), cache |-> c, target |-> 0]

\* A finished call: the operation and its inputs, the cache and audit log
\* before and after it, its response (for a batch: status and results), for an
\* authorize the response to the request with the other dry_run value from
\* the same state, and for a batch the outcome of one call per request.
NoCall == [op |-> "none", policy_id |-> 0, requests |-> <<>>, store_up |-> TRUE,
           before |-> [cache |-> EmptyCache, audit |-> <<>>],
           after |-> [cache |-> EmptyCache, audit |-> <<>>],
           resp |-> NoResp, results |-> <<>>, twin |-> NoResp,
           separate |-> [audit |-> <<>>, results |-> <<>>]]

\* What is kept of the call before the last one.
Earlier(call) == [op |-> call.op, requests |-> call.requests,
                  store_up |-> call.store_up, resp |-> call.resp]

CallHistory(call) == [last |-> call, prev |-> Earlier(ev.last)]

Snapshot == [cache |-> cache, audit |-> audit]

\* Lists of request bodies of POST /access/batch.
Batches == UNION {[1..n -> Requests] : n \in 0..MaxBatch}

NonDryRuns(requests) == Cardinality({i \in 1..Len(requests) : ~requests[i].dry_run})

\* Path parameters of the activate calls: the stored ids and one missing id.
CallActivateIds == 1..(Len(StoredPolicies) + 1)

\* POST /access
AuthorizeCall(request, store_up) ==
    /\ Len(audit) + NonDryRuns(<<request>>) <= MaxAudit
    /\ LET r == authorize_request(Snapshot, Worker, request, store_up)
           t == authorize_request(Snapshot, Worker,
                                  [request EXCEPT !.dry_run = ~request.dry_run],
                                  store_up)
       IN  /\ cache' = CloseSession(r.cache, Worker)
           /\ audit' = r.audit
           /\ ev' = CallHistory([NoCall EXCEPT !.op = "authorize",
                        !.requests = <<request>>, !.store_up = store_up,
                        !.before = Snapshot, !.after = Snapshot', !.resp = r.resp,
                        !.twin = t.resp])
    /\ UNCHANGED <<policies, roles, sess, lastAct, run, rolecall>>

\* POST /access/batch
BatchCall(requests) ==
    /\ Len(audit) + NonDryRuns(requests) <= MaxAudit
    /\ LET b == authorize_batch(Snapshot, Worker, requests)
           q == SeparateFrom(Snapshot, Worker, requests, 1, <<>>)
       IN  /\ cache' = CloseSession(b.cache, Worker)
           /\ audit' = b.audit
           /\ ev' = CallHistory([NoCall EXCEPT !.op = "authorize_batch",
                        !.requests = requests, !.before = Snapshot,
                        !.after = Snapshot',
                        !.resp = [NoResp EXCEPT !.kind = "batch", !.status = b.status],
                        !.results = b.results,
                        !.separate = [audit |-> q.audit, results |-> q.results]])
    /\ UNCHANGED <<policies, roles, sess, lastAct, run, rolecall>>

\* POST /policies/{policy_id}/activate
ActivateCall(policy_id) ==
    /\ audit' = audit
    /\ LET a == activate_policy(policies, cache, Worker, policy_id)
       IN  /\ policies' = a.policies
           /\ cache' = CloseSession(a.cache, Worker)
           /\ ev' = CallHistory([NoCall EXCEPT !.op = "activate",
                        !.policy_id = policy_id, !.before = Snapshot,
                        !.after = Snapshot',
                        !.resp = IF a.target # 0 THEN PolicyResp(a.target)
                                 ELSE ErrorResp(404)])
    /\ UNCHANGED <<roles, sess, lastAct, run, rolecall>>

\* GET /policies/active: the cached object if the slot is filled, else the
\* store's active row; the response is built from the object's attributes,
\* which raises on an expired object of a closed session.
GetActiveCall ==
    /\ ev' = CallHistory([NoCall EXCEPT !.op = "get_active_policy",
                 !.before = Snapshot, !.after = Snapshot,
                 !.resp = IF cache.pid # 0
                          THEN IF cache.expired THEN ErrorResp(500)
                               ELSE PolicyResp(cache.pid)
                          ELSE IF ActiveSet = {} THEN ErrorResp(404)
                          ELSE PolicyResp(CHOOSE q \in ActiveSet : TRUE)])
    /\ UNCHANGED <<policies, roles, audit, cache, sess, lastAct, run, rolecall>>

\* A fresh process on a database in which two policies have been created and
\* none has been activated yet.
CallInit ==
    /\ policies = StoredPolicies
    /\ roles = HierarchyRoles
    /\ audit = <<>>
    /\ cache = EmptyCache
    /\ sess = [s \in Sessions |-> IdleSess]
    /\ lastAct = 0
    /\ run = NoRun
    /\ rolecall = NoRoleCall
    /\ ev = [last |-> NoCall, prev |-> Earlier(NoCall)]

CallNext ==
    \/ \E request \in Requests, store_up \in BOOLEAN : AuthorizeCall(request, store_up)
    \/ \E requests \in Batches : BatchCall(requests)
    \/ \E policy_id \in CallActivateIds : ActivateCall(policy_id)
    \/ GetActiveCall
    \/ Restart

CallSpec == CallInit /\ [][CallNext]_vars

(* ------------------------- list_policies ------------------------------- *)
\* limit of get_all_policies, which the route leaves at its default.
ListLimit == 100

\* The rows of an order from position skip + 1 on, at most limit of them.
Page(order, skip, limit) ==
    LET n == IF Len(order) - skip < 0 THEN 0
             ELSE IF Len(order) - skip > limit THEN limit ELSE Len(order) - skip
    IN  [i \in 1..n |-> order[skip + i]]

\* The orders in which a SELECT may return all policy rows.
RowOrders ==
    {q \in [PolicyIds -> PolicyIds] : \A i, j \in PolicyIds : i # j => q[i] # q[j]}

\* A listing in the order of the row ids.
get_all_policies_by_id(skip, limit) == {Page([i \in PolicyIds |-> i], skip, limit)}

\* get_all_policies: ORDER BY version DESC, OFFSET skip, LIMIT limit.  Rows of
\* equal version come in an order the store chooses.
get_all_policies(skip, limit) ==
    {Page(q, skip, limit) :
        q \in {o \in RowOrders :
                 \A i, j \in PolicyIds :
                    i < j => policies[o[i]].version >= policies[o[j]].version}}

\* The PolicyResponse of a row.
PolicyBody(pid) ==
    [id |-> pid, name |-> policies[pid].name, version |-> policies[pid].version,
     content |-> policies[pid].content, is_active |-> policies[pid].is_active]

\* No list call yet; for a call, the number of rows stored when it ran and the
\* list it returned.
NoList == [op |-> "none", stored |-> 0, result |-> <<>>]

\* GET /policies/: one SELECT, answered with the rows in the order returned.
ListCall ==
    /\ \E ids \in get_all_policies(0, ListLimit) :
          ev' = [op |-> "list_policies", stored |-> Len(policies),
                 result |-> [i \in 1..Len(ids) |-> PolicyBody(ids[i])]]
    /\ UNCHANGED <<policies, roles, audit, cache, sess, lastAct, run, rolecall>>

\* A fresh process on an empty database.
ListInit ==
    /\ policies = <<>>
    /\ roles = HierarchyRoles
    /\ audit = <<>>
    /\ cache = EmptyCache
    /\ sess = [s \in Sessions |-> IdleSess]
    /\ lastAct = 0
    /\ run = NoRun
    /\ rolecall = NoRoleCall
    /\ ev = NoList

\* The create calls and the activate calls of one administrator, who sends
\* the calls of each kind one at a time, and list calls.
ListNext ==
    \/ \E s \in Sessions, policy \in CreateInputs :
            ~CreateRunning /\ CreateSelect(s, policy.name, policy.content)
    \/ \E s \in Sessions : CreateInsert(s)
    \/ \E s \in Sessions, policy_id \in ActivateIds :
            ~ActivateRunning /\ ActDeactivate(s, policy_id)
    \/ \E s \in Sessions : ActSelect(s)
    \/ \E s \in Sessions : ActCommit(s)
    \/ \E s \in Sessions : ActInstall(s)
    \/ \E s \in Sessions : Close(s)
    \/ ListCall

ListSpec == ListInit /\ [][ListNext]_vars

(* --------------- every operation, one call at a time ------------------- *)
\* All operations of the service, called by one client that waits for each
\* answer.  ev names the call that ran last: the operation, its status, its
\* policy id (activate), its requests (authorize and batch), and whether the
\* slot was filled and the store had an active policy when it started.
NoOp == [op |-> "none", status |-> 0, policy_id |-> 0, requests |-> <<>>,
         hit |-> FALSE, active |-> FALSE]

Called(op, status, requests) ==
    [op |-> op, status |-> status, policy_id |-> 0, requests |-> requests,
     hit |-> cache.pid # 0, active |-> ActiveSet # {}]

\* Bodies of POST /roles/: a new role under an existing parent, an existing
\* name, a role that names itself as parent, a parent that does not exist.
OpsRoleInputs ==
    {[name |-> "director", parent_names |-> <<"manager">>],
     [name |-> "manager", parent_names |-> <<>>],
     [name |-> "auditor", parent_names |-> <<"auditor">>],
     [name |-> "auditor", parent_names |-> <<"owner">>]}

\* POST /policies/, the SELECT of the last version and the INSERT.
OpsCreatePolicy(name, content) ==
    /\ Len(policies) < MaxPolicies
    /\ policies' = Append(policies, NewPolicy(name, content, LastVersion(name) + 1))
    /\ ev' = Called("create_policy", 200, <<>>)
    /\ UNCHANGED <<roles, audit, cache, sess, lastAct, run, rolecall>>

\* POST /roles/
OpsCreateRole(name, parent_names) ==
    /\ IF SelfParent(name, parent_names)
       THEN roles' = roles /\ ev' = Called("create_role", 400, <<>>)
       ELSE IF MissingParents(parent_names) # {}
       THEN roles' = roles /\ ev' = Called("create_role", 404, <<>>)
       ELSE IF NameTaken(name)
       THEN /\ roles' = Rollback(roles, name,
                                 {parent_names[i] : i \in 1..Len(parent_names)})
            /\ ev' = Called("create_role", 400, <<>>)
       ELSE /\ roles' = InsertRole(roles, name,
                                   {parent_names[i] : i \in 1..Len(parent_names)})
            /\ ev' = Called("create_role", 200, <<>>)
    /\ UNCHANGED <<policies, audit, cache, sess, lastAct, run, rolecall>>

\* GET /policies/
OpsListPolicies ==
    /\ get_all_policies(0, ListLimit) # {}
    /\ ev' = Called("list_policies", 200, <<>>)
    /\ UNCHANGED <<policies, roles, audit, cache, sess, lastAct, run, rolecall>>

\* GET /policies/active
OpsGetActive ==
    /\ ev' = Called("get_active_policy",
                    IF cache.pid # 0 THEN (IF cache.expired THEN 500 ELSE 200)
                    ELSE IF ActiveSet = {} THEN 404 ELSE 200,
                    <<>>)
    /\ UNCHANGED <<policies, roles, audit, cache, sess, lastAct, run, rolecall>>

\* POST /policies/{policy_id}/activate
OpsActivate(policy_id) ==
    /\ LET a == activate_policy(policies, cache, Worker, policy_id)
       IN  /\ policies' = a.policies
           /\ cache' = CloseSession(a.cache, Worker)
           /\ ev' = [Called("activate", IF a.target # 0 THEN 200 ELSE 404, <<>>)
                        EXCEPT !.policy_id = policy_id]
    /\ UNCHANGED <<roles, audit, sess, lastAct, run, rolecall>>

\* POST /access
OpsAuthorize(request) ==
    /\ Len(audit) + NonDryRuns(<<request>>) <= MaxAudit
    /\ LET r == authorize_request(Snapshot, Worker, request, TRUE)
       IN  /\ cache' = CloseSession(r.cache, Worker)
           /\ audit' = r.audit
           /\ ev' = Called("authorize", r.resp.status, <<request>>)
    /\ UNCHANGED <<policies, roles, sess, lastAct, run, rolecall>>

\* POST /access/batch
OpsBatch(requests) ==
    /\ Len(audit) + NonDryRuns(requests) <= MaxAudit
    /\ LET b == authorize_batch(Snapshot, Worker, requests)
       IN  /\ cache' = CloseSession(b.cache, Worker)
           /\ audit' = b.audit
           /\ ev' = Called("authorize_batch", b.status, requests)
    /\ UNCHANGED <<policies, roles, sess, lastAct, run, rolecall>>

\* The process is restarted between two calls: the cache module is
\* initialised again, the database keeps its rows.
OpsRestart ==
    /\ cache.pid # 0
    /\ cache' = EmptyCache
    /\ ev' = Called("restart", 0, <<>>)
    /\ UNCHANGED <<policies, roles, audit, sess, lastAct, run, rolecall>>

\* A fresh process on a database that holds the two-role hierarchy and no
\* policy yet.
OpsInit ==
    /\ policies = <<>>
    /\ roles = HierarchyRoles
    /\ audit = <<>>
    /\ cache = EmptyCache
    /\ sess = [s \in Sessions |-> IdleSess]
    /\ lastAct = 0
    /\ run = NoRun
    /\ rolecall = NoRoleCall
    /\ ev = NoOp

OpsNext ==
    \/ \E policy \in CreateInputs : OpsCreatePolicy(policy.name, policy.content)
    \/ \E role \in OpsRoleInputs : OpsCreateRole(role.name, role.parent_names)
    \/ OpsListPolicies
    \/ OpsGetActive
    \/ \E policy_id \in 1..(MaxPolicies + 1) : OpsActivate(policy_id)
    \/ \E request \in Requests : OpsAuthorize(request)
    \/ \E requests \in Batches : OpsBatch(requests)
    \/ OpsRestart

OpsSpec == OpsInit /\ [][OpsNext]_vars

(* ============================== claims ================================= *)

\* C1: in every reachable state at most one policy has is_active = true.
C1_MutualExclusion == Cardinality(ActiveSet) <= 1

\* C2: an activate call that returns NotFound (and overlapped no other
\* activate) has changed no is_active flag: its deactivation statement found
\* no active row to switch off.
C2_NotFoundChangesNothing ==
    [][\A s \in Sessions :
          (sess[s].pc = "act_select" /\ sess'[s].pc = "ret"
              /\ sess'[s].resp.status = 404 /\ ~run.overlap)
              => ~run.replaced]_vars

\* C3: when an activate on an existing id returns and no other activate ran
\* during the call, the target is the only policy with is_active = true.
C3_ActivateAlone ==
    [][\A s \in Sessions :
          (sess[s].pc = "act_install" /\ sess'[s].pc = "ret" /\ ~run.overlap)
              => {p \in PolicyIds : policies'[p].is_active} = {sess[s].policy_id}]_vars

\* C3 witness: the second of two stored policies has been activated and the
\* first, which differs in name and was active before, is inactive.
C3_Witness ==
    \E s \in Sessions :
        /\ sess[s].pc = "ret" /\ InOp(s, "activate")
        /\ sess[s].resp = PolicyResp(2)
        /\ lastAct = 2 /\ cache.pid = 2
        /\ policies[1].name # policies[2].name
        /\ ~policies[1].is_active /\ policies[2].is_active

\* C4: the step on which a successful activate(p) returns leaves p in the
\* cache slot, readable, whatever the slot held before.
C4_ActivateInstalls ==
    [][\A s \in Sessions :
          (sess[s].pc = "act_install" /\ sess'[s].pc = "ret")
              => /\ cache'.pid = sess[s].policy_id
                 /\ ~cache'.expired
                 /\ sess'[s].resp = PolicyResp(sess[s].policy_id)]_vars

\* C4 witness: activate(2) has returned with policy 2 in the slot.
C4_Witness ==
    \E s \in Sessions :
        /\ sess[s].pc = "ret" /\ InOp(s, "activate")
        /\ sess[s].resp = PolicyResp(2)
        /\ cache.pid = 2 /\ cache.owner = s

\* C5: an authorize call that starts when activate(p) was the last activate to
\* return, and none is running, takes p as the policy whose rules it
\* evaluates.
C5_CacheCoherence ==
    [][\A s \in Sessions :
          (Idle(s) /\ sess'[s].op = "authorize" /\ lastAct # 0 /\ ~ActivateRunning)
              => /\ sess'[s].pc = "auth_rules"
                 /\ sess'[s].held.pid = lastAct]_vars

\* C6: when an activate has deactivated the policy a lazy-load read from the
\* store and installed the now active policy in the slot, the lazy-load's
\* own install leaves the slot holding the active policy.
C6_NoDowngrade ==
    [][\A s \in Sessions :
          (sess[s].pc = "auth_install" /\ sess'[s].pc = "auth_rules"
              /\ lastAct # 0 /\ cache.pid = lastAct /\ ActiveSet = {lastAct}
              /\ sess[s].obj # lastAct)
              => cache'.pid = lastAct]_vars

\* C7: once every activate call has returned, the policy the last of them
\* left in the slot is exactly the policy that is active in the store.
C7_ActivationsSerializable ==
    (~ActivateRunning /\ lastAct # 0 /\ cache.pid = lastAct)
        => ActiveSet = {cache.pid}

\* C8: an authorize call never reads "no active policy" from the store while
\* an activate is replacing the policy that was active by an existing one.
C8_NeverObservesNone ==
    [][\A s \in Sessions :
          (sess[s].pc = "auth_db" /\ sess'[s].pc = "ret"
              /\ sess'[s].resp.reason = NoPolicyReason)
              => ~\E t \in Sessions :
                     /\ sess[t].pc \in {"act_select", "act_commit"}
                     /\ run.replaced
                     /\ sess[t].policy_id \in PolicyIds]_vars

\* C9: an authorize call answered while no policy is active in the store (and
\* no activate is running) gets decision false, the no-policy reason and no
\* trace id, and appends no audit row.
C9_NoPolicyDeterminism ==
    [][\A s \in Sessions :
          (sess'[s].pc = "ret" /\ sess[s].pc # "ret" /\ sess'[s].op = "authorize"
              /\ ActiveSet = {} /\ ~ActivateRunning)
              => /\ sess'[s].resp = AuthResp(FALSE, NoPolicyReason, NoTrace)
                 /\ audit' = audit]_vars

\* The rule matches the request as the evaluation algorithm is specified:
\* role, then action, then every required attribute.
RefMatches(rule, expanded, action, resource) ==
    /\ rule.role = "*" \/ rule.role \in expanded
    /\ rule.action = "*" \/ rule.action = action
    /\ \/ "resource_match" \notin DOMAIN rule
       \/ \A k \in DOMAIN rule.resource_match :
              k \in DOMAIN resource /\ resource[k] = rule.resource_match[k]

RefEvaluate(rules, expanded, action, resource) ==
    LET hits == {i \in 1..Len(rules) : RefMatches(rules[i], expanded, action, resource)}
    IN  IF hits = {}
        THEN [decision |-> FALSE, reason |-> "Implicit Deny: No matching rule found."]
        ELSE LET i == CHOOSE h \in hits : \A g \in hits : h <= g
             IN  [decision |-> (rules[i].effect = "allow"),
                  reason |-> "Matched Rule #" \o ToString(i - 1) \o " (Role: "
                             \o rules[i].role \o ", Action: " \o rules[i].action \o ")."]

\* C10: the evaluation returns the effect and the reason of the lowest-index
\* matching rule, and the implicit deny when no rule matches.
C10_FirstMatchWins ==
    ev.done =>
        LET r == RefEvaluate(ev.rules, ev.roles, ev.action, ev.resource)
        IN  ev.decision = r.decision /\ ev.reason = r.reason

\* C10 witness: two rules match, a deny before an allow, and the deny decides.
C10_Witness ==
    /\ ev.done
    /\ Len(ev.rules) = 2
    /\ RefMatches(ev.rules[1], ev.roles, ev.action, ev.resource)
    /\ RefMatches(ev.rules[2], ev.roles, ev.action, ev.resource)
    /\ ev.rules[1].effect = "deny" /\ ev.rules[2].effect = "allow"
    /\ ~ev.decision
    /\ ev.reason = "Matched Rule #0 (Role: *, Action: read)."

\* Both swapped rules match the request and their effects differ.
BothMatchAndDiffer ==
    /\ RefMatches(ev.rules[ev.i], ev.roles, ev.action, ev.resource)
    /\ RefMatches(ev.rules[ev.j], ev.roles, ev.action, ev.resource)
    /\ ev.rules[ev.i].effect # ev.rules[ev.j].effect

\* C11 as stated: swapping the rules at two positions changes the decision if
\* and only if both rules match the request and have different effects.
C11_SwapAnyPair ==
    (ev.done /\ ev.j # 0) => ((ev.decision # ev.swapped) <=> BothMatchAndDiffer)

\* C11 amended: when no other rule placed before the later of the two swapped
\* rules matches the request, swapping them changes the decision if and only
\* if both match the request and have different effects.
C11_SwapUnshadowed ==
    (ev.done /\ ev.j # 0
        /\ \A k \in 1..(ev.j - 1) :
               k # ev.i => ~RefMatches(ev.rules[k], ev.roles, ev.action, ev.resource))
        => ((ev.decision # ev.swapped) <=> BothMatchAndDiffer)

\* C11 witness: in a list of three rules the first and the last are swapped,
\* both match with different effects, the middle one does not match, and the
\* decision changes from allow to deny.
C11_Witness ==
    /\ ev.done /\ Len(ev.rules) = 3 /\ ev.i = 1 /\ ev.j = 3
    /\ BothMatchAndDiffer
    /\ ~RefMatches(ev.rules[2], ev.roles, ev.action, ev.resource)
    /\ ev.decision /\ ~ev.swapped

\* Session s returns from an authorize call on this step.
AuthReturns(s) == sess[s].pc # "ret" /\ sess'[s].pc = "ret" /\ sess'[s].op = "authorize"

\* C12 as stated: every authorize call with dry_run = false adds exactly one
\* audit row and returns that row's id as trace_id.
C12_EveryNonDryRunAudits ==
    [][\A s \in Sessions :
          (AuthReturns(s) /\ ~sess'[s].request.dry_run)
              => /\ Len(audit') = Len(audit) + 1
                 /\ sess'[s].resp.trace_id = Len(audit')]_vars

\* C12 amended: every authorize call with dry_run = false that is answered
\* from a policy adds exactly one audit row and returns that row's id as
\* trace_id; answered with "no active policy" it adds no row and returns no
\* trace_id.
C12_NonDryRunAudits ==
    [][\A s \in Sessions :
          (AuthReturns(s) /\ ~sess'[s].request.dry_run /\ sess'[s].resp.kind = "auth")
              => IF sess'[s].resp.reason = NoPolicyReason
                 THEN audit' = audit /\ sess'[s].resp.trace_id = NoTrace
                 ELSE /\ Len(audit') = Len(audit) + 1
                      /\ SubSeq(audit', 1, Len(audit)) = audit
                      /\ sess'[s].resp.trace_id = Len(audit')]_vars

\* C12 witness: a second non-dry-run call has returned trace_id 2 with two
\* rows in the log.
C12_Witness ==
    \E s \in Sessions :
        /\ sess[s].pc = "ret" /\ InOp(s, "authorize")
        /\ ~sess[s].request.dry_run
        /\ sess[s].resp.trace_id = 2 /\ Len(audit) = 2

\* C13: the step on which an authorize call with dry_run = true returns
\* leaves the audit log as it was, and its response carries no trace_id,
\* whatever the decision.
C13_DryRunNoAudit ==
    [][\A s \in Sessions :
          (AuthReturns(s) /\ sess'[s].request.dry_run)
              => /\ audit' = audit
                 /\ sess'[s].resp.trace_id = NoTrace]_vars

\* C13 witness: a dry-run call has been allowed with no trace_id while the
\* log holds a row of an earlier call.
C13_Witness ==
    \E s \in Sessions :
        /\ sess[s].pc = "ret" /\ InOp(s, "authorize")
        /\ sess[s].request.dry_run
        /\ sess[s].resp.kind = "auth" /\ sess[s].resp.decision
        /\ sess[s].resp.trace_id = NoTrace
        /\ Len(audit) = 1

\* C14: an authorize response carries a trace_id exactly when the call
\* appended an audit row, the trace_id is the id of that row, and it differs
\* from the trace_id of every response still held by another caller.
C14_TraceIffAudited ==
    [][\A s \in Sessions :
          (AuthReturns(s) /\ sess'[s].resp.kind = "auth")
              => /\ (sess'[s].resp.trace_id # NoTrace) <=> (audit' # audit)
                 /\ sess'[s].resp.trace_id # NoTrace
                      => /\ Len(audit') = Len(audit) + 1
                         /\ sess'[s].resp.trace_id = Len(audit')
                         /\ audit'[sess'[s].resp.trace_id].decision = sess'[s].resp.decision
                         /\ \A t \in Sessions \ {s} :
                                sess'[t].resp.trace_id # sess'[s].resp.trace_id]_vars

\* C14 witness: two non-dry-run calls hold their responses at the same time,
\* with trace ids 1 and 2.
C14_Witness ==
    \E s, t \in Sessions :
        /\ sess[s].pc = "ret" /\ sess[t].pc = "ret"
        /\ InOp(s, "authorize") /\ InOp(t, "authorize")
        /\ sess[s].resp.trace_id = 1 /\ sess[t].resp.trace_id = 2
        /\ Len(audit) = 2

\* C15: when create calls do not overlap, each stored policy's version is its
\* rank among the policies of its name in creation order: 1 for the first,
\* 1 + the largest version before it otherwise, whatever was created under
\* other names and whatever was activated.
C15_AutoVersioning ==
    \A p \in PolicyIds :
        policies[p].version =
            Cardinality({q \in 1..p : policies[q].name = policies[p].name})

\* C15 witness: two policies of one name hold versions 1 and 2 and the first
\* was activated before the second was stored.
C15_Witness ==
    /\ Len(policies) = 2
    /\ policies[1].name = policies[2].name
    /\ policies[1].version = 1 /\ policies[2].version = 2
    /\ policies[1].is_active /\ lastAct = 1

\* C16: no two stored policies share the same (name, version) pair.
C16_UniqueVersions ==
    \A p, q \in PolicyIds :
        (p # q /\ policies[p].name = policies[q].name)
            => policies[p].version # policies[q].version

\* C17: the step that stores a new policy appends one row with is_active =
\* false and leaves every existing row, the set of active policies and the
\* cache slot as they were; the SELECT before it changes nothing.
C17_CreateFrame ==
    [][\A s \in Sessions :
          /\ (sess[s].pc = "create_insert" /\ sess'[s].pc = "idle")
                => /\ Len(policies') = Len(policies) + 1
                   /\ SubSeq(policies', 1, Len(policies)) = policies
                   /\ ~policies'[Len(policies')].is_active
                   /\ {p \in 1..Len(policies') : policies'[p].is_active} = ActiveSet
                   /\ cache' = cache
          /\ (sess[s].pc = "idle" /\ sess'[s].pc = "create_insert")
                => policies' = policies /\ cache' = cache]_vars

\* C17 witness: policy 1 is active and cached while a second policy has been
\* stored, inactive.
C17_Witness ==
    /\ Len(policies) = 2
    /\ policies[1].is_active /\ ~policies[2].is_active
    /\ cache.pid = 1 /\ lastAct = 1
    /\ \A s \in Sessions : Idle(s)

\* The immediate parents of an existing role, and the parents of those.
ParentsOf(name) == roles[name]
GrandparentsOf(name) == UNION {roles[p] : p \in roles[name]}

\* C18: for an existing role the expansion is the role plus its immediate
\* parents; a rule naming an immediate parent matches the request, and a
\* rule naming a role that is only a parent of a parent does not.
C18_SingleHop ==
    (rolecall.op = "authorize" /\ rolecall.name \in DOMAIN roles) =>
        /\ rolecall.expanded = {rolecall.name} \cup ParentsOf(rolecall.name)
        /\ rolecall.rule_role \in ParentsOf(rolecall.name) => rolecall.decision
        /\ (rolecall.rule_role \in GrandparentsOf(rolecall.name)
                /\ rolecall.rule_role \notin ParentsOf(rolecall.name)
                /\ rolecall.rule_role # rolecall.name) => ~rolecall.decision

\* C18 witness: director -> manager -> employee; a director's request against
\* a rule for employee is denied with the expansion {director, manager}.
C18_Witness ==
    /\ rolecall.op = "authorize"
    /\ rolecall.name = "director" /\ rolecall.rule_role = "employee"
    /\ DOMAIN roles = {"employee", "manager", "director"}
    /\ roles["director"] = {"manager"} /\ roles["manager"] = {"employee"}
    /\ rolecall.expanded = {"director", "manager"}
    /\ ~rolecall.decision

\* The roles reachable from the given ones along parent edges.
RECURSIVE ReachableFrom(_, _)
ReachableFrom(names, n) ==
    IF n = 0 THEN names
    ELSE ReachableFrom(names \cup UNION {roles[r] : r \in names \cap DOMAIN roles}, n - 1)

\* C19: no role is reachable from itself along parent edges, and every edge
\* leads to a stored role.
C19_Acyclic ==
    \A r \in DOMAIN roles :
        /\ roles[r] \subseteq DOMAIN roles
        /\ r \notin ReachableFrom(roles[r], Cardinality(DOMAIN roles))

\* C19 witness: a create_role that reuses the name of a stored role, naming
\* as parent a role that inherits from it, has been rejected.
C19_Witness ==
    /\ rolecall.op = "create_role" /\ rolecall.status = 400
    /\ rolecall.name \in DOMAIN roles
    /\ Len(rolecall.parent_names) = 1
    /\ rolecall.parent_names[1] \in DOMAIN roles
    /\ rolecall.name \in roles[rolecall.parent_names[1]]

\* C20: a create_role call whose name is among its parent_names returns 400,
\* one that names a missing parent returns 404, one whose name is taken
\* returns 400, and each of these leaves the roles and edges as they were.
C20_RejectionAtomic ==
    [][(rolecall'.op = "create_role" /\ rolecall' # rolecall) =>
          LET name == rolecall'.name
              parent_names == rolecall'.parent_names
              cyc == \E i \in 1..Len(parent_names) : parent_names[i] = name
              unk == \E i \in 1..Len(parent_names) : parent_names[i] \notin DOMAIN roles
              dup == name \in DOMAIN roles
          IN  /\ cyc => rolecall'.status = 400 /\ rolecall'.detail = CycleDetail
              /\ (unk /\ ~cyc) => rolecall'.status = 404
              /\ (dup /\ ~cyc /\ ~unk) =>
                    rolecall'.status = 400 /\ rolecall'.detail = ConflictDetail
              /\ (cyc \/ unk \/ dup) => roles' = roles
              /\ rolecall'.status # 200 => roles' = roles]_vars

\* C20 witness: a create_role whose first parent exists and whose second does
\* not has been answered 404 naming the second.
C20_Witness ==
    /\ rolecall.op = "create_role" /\ rolecall.status = 404
    /\ Len(rolecall.parent_names) = 2
    /\ rolecall.parent_names[1] \in DOMAIN roles
    /\ rolecall.parent_names[2] \notin DOMAIN roles
    /\ rolecall.detail = UnknownParentDetail(rolecall.parent_names[2])
    /\ rolecall.name \notin DOMAIN roles

\* The list of rules of the drawn content when "rules" is a list (or absent).
DrawnRules == DictGet(ev.content, "rules", JsonList(<<>>)).yields

DrawnIsList == DictGet(ev.content, "rules", JsonList(<<>>)).type = "list"

\* C21: a request whose subject has no role key, or an empty role, gets the
\* expanded role set, the decision and the reason of the same request with
\* role "guest".
C21_RoleDefaulting ==
    (ev.done /\ ("role" \notin DOMAIN ev.subject \/ ev.subject = [role |-> ""]))
        => LET g == EvaluateContent(ev.content,
                        [DecideRequest EXCEPT !.subject = [role |-> "guest"]])
           IN  /\ ev.expanded = expand_roles("guest")
               /\ ev.status = g.status
               /\ ev.decision = g.decision
               /\ ev.reason = g.reason

\* Rule number 1 of the drawn list passes the role check and the action check
\* of the evaluation loop.
FirstRulePassesRbac ==
    /\ DrawnIsList /\ Len(DrawnRules) >= 1
    /\ LET rule == DrawnRules[1]
       IN  /\ DictGet(rule, "role", NoneVal) \in ev.expanded
                \/ DictGet(rule, "role", NoneVal) = "*"
           /\ DictGet(rule, "action", NoneVal) = ev.action
                \/ DictGet(rule, "action", NoneVal) = "*"

\* The attribute match as specified: no conditions, or every required key is
\* present in the request resource with the required value.
AttributesMatch(rule, resource) ==
    LET required == DictGet(rule, "resource_match", EmptyDict)
    IN  \A k \in DOMAIN required : k \in DOMAIN resource /\ resource[k] = required[k]

\* C22: a rule that passes the role and action checks decides the request iff
\* its resource_match is absent or empty or every required (k, v) is in the
\* request resource; a key missing from the resource fails the match for
\* every required value, extra attributes of the resource are ignored.
C22_AttributeMatch ==
    (ev.done /\ FirstRulePassesRbac)
        => ((ev.reason = MatchedReason(0, DrawnRules[1]))
                <=> AttributesMatch(DrawnRules[1], ev.resource))

\* Rule number 1 of the drawn list decided the request.
FirstRuleDecided ==
    /\ ev.status = 200
    /\ ev.reason = MatchedReason(0, DrawnRules[1])
    /\ ev.decision = (DictGet(DrawnRules[1], "effect", NoneVal) = "allow")

\* C23: a rule with role "*" passes the role check for every expanded role
\* set and a rule with action "*" passes the action check for every action, so
\* such a rule without attribute conditions decides the request when its
\* other check passes; the rule {role: "*", action: "*"} without
\* resource_match at index 0 decides every request.
C23_WildcardAbsorption ==
    (ev.done /\ DrawnIsList /\ Len(DrawnRules) >= 1)
        => LET rule == DrawnRules[1]
               role == DictGet(rule, "role", NoneVal)
               action == DictGet(rule, "action", NoneVal)
               unconditional == DOMAIN DictGet(rule, "resource_match", EmptyDict) = {}
           IN  /\ (role = "*" /\ action = ev.action /\ unconditional) => FirstRuleDecided
               /\ (action = "*" /\ role \in ev.expanded /\ role # NoneVal /\ unconditional)
                     => FirstRuleDecided
               /\ (role = "*" /\ action = "*" /\ "resource_match" \notin DOMAIN rule)
                     => FirstRuleDecided

\* C23 witness: a subject with an unknown role asks for "write"; the wildcard
\* rule at index 0 allows it before the rule that follows is looked at.
C23_Witness ==
    /\ ev.done
    /\ ev.subject = [role |-> "intern"] /\ ev.action = "write"
    /\ DrawnIsList /\ Len(DrawnRules) = 2
    /\ DrawnRules[1] = WildcardRule("allow")
    /\ ev.decision
    /\ ev.reason = "Matched Rule #0 (Role: *, Action: *)."

\* C24: when content.rules is not a list (a string, a mapping, null, a
\* number) authorize returns decision false with the implicit-deny reason, as
\* for an empty rule list, and does not fail.
C24_MalformedRulesDeny ==
    (ev.done /\ ~DrawnIsList)
        => /\ ev.status = 200
           /\ ~ev.decision
           /\ ev.reason = ImplicitDenyReason

\* C25: a rule without a role field and a rule without an action field never
\* match a request, whatever its subject (a null role included), action and
\* resource.
C25_AbsentFieldsNeverMatch ==
    (ev.done /\ DrawnIsList /\ Len(DrawnRules) = 1
        /\ ("role" \notin DOMAIN DrawnRules[1] \/ "action" \notin DOMAIN DrawnRules[1]))
        => /\ ev.status = 200
           /\ ~ev.decision
           /\ ev.reason = ImplicitDenyReason

\* C30: for a subject whose role name has no Role row the expansion is exactly
\* {name}, the evaluation of a rule list returns a decision, and a rule that
\* decides the request has role "*" or that exact name.
C30_UnknownRole ==
    (ev.done /\ DrawnIsList /\ "role" \in DOMAIN ev.subject
        /\ ev.subject.role # NoneVal /\ ~RoleExists(ev.subject.role))
        => /\ ev.expanded = {ev.subject.role}
           /\ ev.status = 200
           /\ \/ ~ev.decision /\ ev.reason = ImplicitDenyReason
              \/ \E i \in 1..Len(DrawnRules) :
                    /\ ev.reason = MatchedReason(i - 1, DrawnRules[i])
                    /\ ev.decision = (DictGet(DrawnRules[i], "effect", NoneVal) = "allow")
                    /\ "role" \in DOMAIN DrawnRules[i]
                    /\ DrawnRules[i].role \in {"*", ev.subject.role}

\* C30 witness: the role "intern" has no row; a rule naming "intern" allows
\* the request.
C30_Witness ==
    /\ ev.done
    /\ ev.subject = [role |-> "intern"]
    /\ ev.expanded = {"intern"}
    /\ DrawnIsList /\ Len(DrawnRules) = 1
    /\ DrawnRules[1] = [role |-> "intern", action |-> "read", effect |-> "allow"]
    /\ ev.decision
    /\ ev.reason = "Matched Rule #0 (Role: intern, Action: read)."

\* C26: a batch call returns what one authorize call per request, in the order
\* of the list, returns against the same evolving state: one response per
\* request, the same responses, the same audit rows with increasing trace
\* ids; an empty list returns an empty list and changes nothing.
C26_BatchIsSequence ==
    (ev.last.op = "authorize_batch")
        => /\ ev.last.resp.status = 200
           /\ Len(ev.last.results) = Len(ev.last.requests)
           /\ ev.last.results = ev.last.separate.results
           /\ ev.last.after.audit = ev.last.separate.audit
           /\ \A i, j \in 1..Len(ev.last.results) :
                 (i < j /\ ~ev.last.requests[i].dry_run /\ ~ev.last.requests[j].dry_run
                     /\ ev.last.results[i].trace_id # NoTrace)
                     => ev.last.results[i].trace_id < ev.last.results[j].trace_id
           /\ (ev.last.requests = <<>>)
                 => (ev.last.results = <<>> /\ ev.last.after = ev.last.before)

\* C27: get_active_policy returns the policy whose is_active flag is true in
\* the store, and answers 404 exactly when the store has no active policy.
C27_GetActiveIsStoreActive ==
    (ev.last.op = "get_active_policy")
        => /\ ev.last.resp.status \in {200, 404}
           /\ (ev.last.resp.status = 404) <=> (ActiveSet = {})
           /\ (ev.last.resp.status = 200) => (ev.last.resp.pid \in ActiveSet)

\* The decision part of a response: status, decision and reason.
Verdict(resp) == <<resp.status, resp.decision, resp.reason>>

\* C28: the response to a request and the response to the same request with
\* the other dry_run value, from the same state, carry the same decision and
\* reason; and an authorize call that repeats the request of the authorize
\* call before it returns the same decision and reason.
C28_DryRunAndRepeat ==
    /\ (ev.last.op = "authorize")
          => Verdict(ev.last.resp) = Verdict(ev.last.twin)
    /\ (ev.last.op = "authorize" /\ ev.prev.op = "authorize"
          /\ ev.last.store_up /\ ev.prev.store_up
          /\ ev.last.requests = ev.prev.requests)
          => Verdict(ev.last.resp) = Verdict(ev.prev.resp)

\* C29: an authorize call on an empty cache whose fetch of the active policy
\* fails in the store returns decision false with the no-policy reason and no
\* trace id, and writes no audit row.
C29_StoreFailureDenies ==
    (ev.last.op = "authorize" /\ ev.last.before.cache.pid = 0 /\ ~ev.last.store_up)
        => /\ ev.last.resp = AuthResp(FALSE, NoPolicyReason, NoTrace)
           /\ ev.last.after.audit = ev.last.before.audit

\* C31: list_policies returns every stored policy once, and of two adjacent
\* entries the earlier one's version is not below the later one's, whatever
\* their names.
C31_ListVersionDescending ==
    (ev.op = "list_policies")
        => /\ Len(ev.result) = ev.stored
           /\ \A i, j \in 1..Len(ev.result) : i # j => ev.result[i].id # ev.result[j].id
           /\ \A i \in 1..(Len(ev.result) - 1) :
                 ev.result[i].version >= ev.result[i + 1].version

\* C31 witness: version 2 of "base", created last, is listed before version 1.
C31_Witness ==
    /\ ev.op = "list_policies"
    /\ Len(ev.result) = 2
    /\ ev.result[1].id = 2 /\ ev.result[1].version = 2
    /\ ev.result[2].id = 1 /\ ev.result[2].version = 1

\* C32: whenever no activate call is in progress and the cache slot is filled,
\* the cached policy is the one policy whose is_active flag is true in the
\* store.
C32_CacheAgreesWithStore ==
    (~ActivateRunning /\ cache.pid # 0) => ActiveSet = {cache.pid}

\* C33: the cache slot refers to another policy after a step only if the step
\* is an activate that found its target or an authorize (alone or in a batch)
\* that missed the cache and found an active policy; create_policy,
\* create_role, list_policies, get_active_policy, an activate answered
\* NotFound, an authorize on a cache hit and an authorize that finds no active
\* policy leave the slot as it is.
C33_CacheWriters ==
    [][(cache'.pid # cache.pid)
          => \/ ev'.op = "activate" /\ ev'.status = 200
             \/ /\ ev'.op \in {"authorize", "authorize_batch"}
                /\ ev'.requests # <<>>
                /\ ~ev'.hit /\ ev'.active
             \/ ev'.op = "restart"]_vars

\* C33 witness: an authorize call missed the cache, found policy 1 active in
\* the store and left it in the slot.
C33_Witness ==
    /\ ev.op = "authorize" /\ ev.status = 200
    /\ ~ev.hit /\ ev.active
    /\ cache.pid = 1 /\ ActiveSet = {1}

\* C34: an authorize call that finds in the slot the policy object left there
\* by an earlier authorize call, which missed the cache, installed the store's
\* active policy and wrote its audit row (so the object's attributes are
\* expired and its session is closed), returns the decision and reason of
\* evaluating that policy's rules.
C34_LazyLoadStaysUsable ==
    (ev.last.op = "authorize" /\ ev.last.store_up
        /\ ev.last.before.cache.pid # 0 /\ ev.last.before.cache.expired)
        => LET d == Decide(policies[ev.last.before.cache.pid].content,
                           ev.last.requests[1])
           IN  /\ ev.last.resp.kind = "auth"
               /\ ev.last.resp.decision = d.decision
               /\ ev.last.resp.reason = d.reason

\* C35: a step never changes or removes an audit row and appends at most one;
\* the row appended by an authorize call gets an id above every earlier id,
\* and it records the action of the request and the decision and reason of
\* the response returned for that call.
C35_AuditAppendOnly ==
    [][/\ Len(audit') \in {Len(audit), Len(audit) + 1}
       /\ SubSeq(audit', 1, Len(audit)) = audit
       /\ (Len(audit') = Len(audit) + 1)
             => \E s \in Sessions :
                   /\ AuthReturns(s)
                   /\ ~sess'[s].request.dry_run
                   /\ sess'[s].resp.trace_id = Len(audit')
                   /\ audit'[Len(audit')].action = sess'[s].request.action
                   /\ audit'[Len(audit')].decision = sess'[s].resp.decision
                   /\ audit'[Len(audit')].explanation = sess'[s].resp.reason]_vars

\* C35 witness: the log holds an allow row and then a deny row, written by
\* two calls decided under different policies; the second call is returning
\* trace id 2.
C35_Witness ==
    /\ Len(audit) = 2
    /\ audit[1].decision /\ ~audit[2].decision
    /\ \E s \in Sessions :
          /\ sess[s].pc = "ret" /\ InOp(s, "authorize")
          /\ sess[s].resp.trace_id = 2
          /\ sess[s].resp.reason = audit[2].explanation

\* C36: when the first rule matches the request and its effect is not the
\* exact string "allow" ("deny", no effect, another value), the decision is
\* false with the reason "Matched Rule #0 ..." of that rule, whatever rule
\* follows it.
C36_NonAllowDenies ==
    (ev.done /\ FirstRulePassesRbac /\ AttributesMatch(DrawnRules[1], ev.resource)
        /\ DictGet(DrawnRules[1], "effect", NoneVal) # "allow")
        => /\ ev.status = 200
           /\ ~ev.decision
           /\ ev.reason = MatchedReason(0, DrawnRules[1])

\* C36 witness: a wildcard rule without effect comes before a wildcard rule
\* that allows; the request is denied by rule #0.
C36_Witness ==
    /\ ev.done
    /\ DrawnIsList /\ Len(DrawnRules) = 2
    /\ DrawnRules[1] = [role |-> "*", action |-> "*"]
    /\ DrawnRules[2] = [role |-> "*", action |-> "*", effect |-> "allow"]
    /\ ~ev.decision
    /\ ev.reason = "Matched Rule #0 (Role: *, Action: *)."

\* C37: an authorize call and a batch call leave every policy row (name,
\* version, content, is_active) and every role and inheritance edge as they
\* were; they keep the audit rows already written and append at most one row
\* per request, none for a dry-run request.
C37_AuthorizeFrame ==
    [][(ev'.op \in {"authorize", "authorize_batch"})
          => /\ policies' = policies
             /\ roles' = roles
             /\ SubSeq(audit', 1, Len(audit)) = audit
             /\ Len(audit') - Len(audit)
                   <= Cardinality({i \in 1..Len(ev'.requests) :
                                      ~ev'.requests[i].dry_run})]_vars

\* C37 witness: a batch of two non-dry-run requests was answered under the
\* active policy 1 and wrote the two rows of the log.
C37_Witness ==
    /\ ev.op = "authorize_batch" /\ ev.status = 200
    /\ Len(ev.requests) = 2
    /\ ~ev.requests[1].dry_run /\ ~ev.requests[2].dry_run
    /\ Len(audit) = 2
    /\ ActiveSet = {1}
    /\ Len(policies) = 2

\* C38: an activate call adds and removes no policy and changes no name,
\* version or content; activating the policy that is already active leaves it
\* the single active policy with the slot holding it, and when the slot held
\* it before, the rows and the slot are as they were.
C38_ActivateIdempotent ==
    [][(ev'.op = "activate")
          => /\ Len(policies') = Len(policies)
             /\ \A p \in PolicyIds :
                   /\ policies'[p].name = policies[p].name
                   /\ policies'[p].version = policies[p].version
                   /\ policies'[p].content = policies[p].content
             /\ (ev'.policy_id \in ActiveSet)
                   => /\ ev'.status = 200
                      /\ {p \in PolicyIds : policies'[p].is_active} = {ev'.policy_id}
                      /\ cache'.pid = ev'.policy_id /\ ~cache'.expired
                      /\ (ActiveSet = {ev'.policy_id} /\ cache.pid = ev'.policy_id
                            /\ ~cache.expired)
                            => (policies' = policies /\ cache' = cache)]_vars

\* C38 witness: policy 2 was active with the slot holding it, activate(2) was
\* called again and answered 200, and policy 2 is the single active policy.
C38_Witness ==
    /\ ev.op = "activate" /\ ev.policy_id = 2 /\ ev.status = 200
    /\ ev.hit /\ ev.active
    /\ ActiveSet = {2}
    /\ cache.pid = 2

====
